---------------------------- MODULE Spec2Model ----------------------------
(***************************************************************************)
(* A model of dispatcher/lib/mongodb.py: the update-query compiler         *)
(* (MongoCollection.generate_update_query over dictdiffer.diff and         *)
(* sub_key) and the collection gateway (insert / update / delete / save)   *)
(* with the per-model saved state (AbstractModel._saved).                  *)
(*                                                                         *)
(* Tree values are tagged records [kind, val]:                             *)
(*   "int"  an integer scalar          "str"  a string scalar              *)
(*   "none" Python's None              "list" a sequence of tree values    *)
(*   "dict" a function from string keys to tree values                     *)
(* A dotted key ("a.b") is the sequence of its segments (<<"a","b">>); the *)
(* empty string '' is the empty sequence.                                  *)
(***************************************************************************)
EXTENDS Integers, Sequences, FiniteSets, TLC

VARIABLES
    m_id,       \* model._id: the identity of the model instance (None when cleared)
    attrs,      \* the instance's own attributes: what to_dict() serialises besides _id
    saved,      \* model._saved: local saved state
    store,      \* the collection: documents by their _id
    calls,      \* requests sent to the collection by the last gateway call, in order
    last,       \* the last gateway call: its name, how it ended, what it saw
    n_ids,      \* how many identities have been generated so far
    original,   \* compiler run: previous state given to generate_update_query
    new_one,    \* compiler run: new state given to generate_update_query
    result,     \* compiler run: what generate_update_query returned or raised
    pc,         \* compiler run: "input" before the call, "done" after it
    key_order,  \* compiler run: the order in which the mappings hold their keys
    instances,  \* two instances of one model class: _id, attributes, own _saved
    class_saved,\* the class attribute AbstractModel._saved
    actor       \* which of the two instances the last step was about

vars == <<m_id, attrs, saved, store, calls, last, n_ids, original, new_one, result, pc,
          key_order,
          instances, class_saved, actor>>
twovars == <<instances, class_saved, actor>>
gwvars == <<m_id, attrs, saved, store, calls, last, n_ids>>
cmpvars == <<original, new_one, result, pc, key_order>>

---------------------------------------------------------------------------
(* Bounds of the explored inputs *)
MaxInt == 2
MaxLen == 2

---------------------------------------------------------------------------
(* Tree values *)
I(n) == [kind |-> "int", val |-> n]
S(s) == [kind |-> "str", val |-> s]
L(s) == [kind |-> "list", val |-> s]
D(f) == [kind |-> "dict", val |-> f]
None == [kind |-> "none", val |-> 0]
EmptyFn == [k \in {} |-> None]
EmptyDict == D(EmptyFn)

isinstance_list(v) == v.kind = "list"
isinstance_dict(v) == v.kind = "dict"

(* A path segment as dictdiffer reports it: a mapping key or a list index *)
K(s) == [kind |-> "key", val |-> s]
X(i) == [kind |-> "idx", val |-> i]

(* The order in which a mapping's keys are visited (insertion order of the *)
(* documents built here).                                                   *)
KeyOrder == <<"_id", "a", "b", "x", "y">>

RECURSIVE SelectKeys(_, _)
SelectKeys(order, keep) ==
    IF order = <<>> THEN <<>>
    ELSE IF Head(order) \in keep
         THEN <<Head(order)>> \o SelectKeys(Tail(order), keep)
         ELSE SelectKeys(Tail(order), keep)

---------------------------------------------------------------------------
(* dictdiffer.diff(first, second): the ordered edits                        *)
(*   [verb, node, values]; node is the path as a sequence of segments.      *)
(*   verb "add"/"remove": values is a sequence of <<segment, value>> pairs  *)
(*   verb "change":       values is the pair <<old, new>>                   *)

RECURSIVE diff_recursive(_, _, _, _)
RECURSIVE diff_intersection(_, _, _, _, _)

diff_intersection(first, second, node, keys, order) ==
    IF keys = <<>> THEN <<>>
    ELSE LET k == Head(keys)
             sub == IF k.kind = "idx"
                    THEN diff_recursive(first.val[k.val + 1], second.val[k.val + 1],
                                        Append(node, k), order)
                    ELSE diff_recursive(first.val[k.val], second.val[k.val],
                                        Append(node, k), order)
         IN sub \o diff_intersection(first, second, node, Tail(keys), order)

diff_recursive(first, second, node, order) ==
    IF isinstance_dict(first) /\ isinstance_dict(second) THEN
        LET kf == DOMAIN first.val
            ks == DOMAIN second.val
            inter == SelectKeys(order, kf \cap ks)
            addition == SelectKeys(order, ks \ kf)
            deletion == SelectKeys(order, kf \ ks)
        IN diff_intersection(first, second, node,
                             [i \in 1..Len(inter) |-> K(inter[i])], order)
           \o (IF addition # <<>>
               THEN << [verb |-> "add", node |-> node,
                        values |-> [i \in 1..Len(addition) |->
                                     <<K(addition[i]), second.val[addition[i]]>>]] >>
               ELSE <<>>)
           \o (IF deletion # <<>>
               THEN << [verb |-> "remove", node |-> node,
                        values |-> [i \in 1..Len(deletion) |->
                                     <<K(deletion[i]), first.val[deletion[i]]>>]] >>
               ELSE <<>>)
    ELSE IF isinstance_list(first) /\ isinstance_list(second) THEN
        LET lf == Len(first.val)
            ls == Len(second.val)
            mn == IF lf < ls THEN lf ELSE ls
        IN diff_intersection(first, second, node, [i \in 1..mn |-> X(i - 1)], order)
           \o (IF ls > mn
               THEN << [verb |-> "add", node |-> node,
                        values |-> [i \in 1..(ls - mn) |->
                                     <<X(mn + i - 1), second.val[mn + i]>>]] >>
               ELSE <<>>)
           \o (IF lf > mn
               \* deletions are reported from the last index down
               THEN << [verb |-> "remove", node |-> node,
                        values |-> [i \in 1..(lf - mn) |->
                                     <<X(lf - i), first.val[lf - i + 1]>>]] >>
               ELSE <<>>)
    ELSE IF first # second
         THEN << [verb |-> "change", node |-> node, values |-> <<first, second>>] >>
         ELSE <<>>

(* a differ that compares by object identity at the root and so reports    *)
(* two equal documents as changed                                          *)
diff_by_identity(first, second) ==
    << [verb |-> "change", node |-> <<>>, values |-> <<first, second>>] >>
    \o diff_recursive(first, second, <<>>, KeyOrder)

(* diff over documents whose mappings hold their keys in the given order *)
diff_in_order(first, second, order) == diff_recursive(first, second, <<>>, order)

diff(first, second) == diff_in_order(first, second, KeyOrder)

(* dictdiffer's dotted(node): a node made of strings only is reported as   *)
(* the dot-joined string, any other node as a list.                        *)
is_dotted(node) == \A i \in 1..Len(node) : node[i].kind = "key"
segment_names(node) == [i \in 1..Len(node) |-> node[i].val]

---------------------------------------------------------------------------
(* sub_key(dictionary, key): find a dotted key; None is the default.       *)
(* ''.split('.') is [''], so the empty key looks the key '' up.            *)
DigitVal == [d \in {"0", "1", "2", "3"} |->
               CASE d = "0" -> 0 [] d = "1" -> 1 [] d = "2" -> 2 [] d = "3" -> 3]
isdigit(k) == k \in DOMAIN DigitVal

RECURSIVE sub_key_walk(_, _)
sub_key_walk(suburb, ks) ==
    IF ks = <<>> THEN suburb
    ELSE LET k == Head(ks) IN
         IF isinstance_list(suburb) /\ isdigit(k) /\ DigitVal[k] < Len(suburb.val)
         THEN sub_key_walk(suburb.val[DigitVal[k] + 1], Tail(ks))
         ELSE IF ~isinstance_dict(suburb) THEN None
         ELSE IF k \notin DOMAIN suburb.val THEN None
         ELSE IF suburb.val[k] = None THEN None
         ELSE sub_key_walk(suburb.val[k], Tail(ks))

sub_key(dictionary, key) ==
    sub_key_walk(dictionary, IF key = <<>> THEN <<"">> ELSE key)

---------------------------------------------------------------------------
(* MongoCollection.generate_update_query(original, new_one)                 *)
(* The four operator maps are functions from dotted keys to values; raised *)
(* names the exception that ended the call ("none": it returned).          *)

Put(m, k, v) == [p \in (DOMAIN m) \cup {k} |-> IF p = k THEN v ELSE m[p]]
EmptyMap == [p \in {} |-> None]

(* f'{key}.{sk}' *)
dot_join(key, sk) == IF key = <<>> THEN <<"", sk>> ELSE Append(key, sk)

EmptyAcc == [raised |-> "none", pull |-> EmptyMap, push |-> EmptyMap,
             set |-> EmptyMap, unset |-> EmptyMap, list_change |-> EmptyMap]

Raise(acc, exc) == [acc EXCEPT !.raised = exc]

(* vals = [v[1] for v in values] over the <<segment, value>> pairs *)
pair_values(values) == [i \in 1..Len(values) |-> values[i][2]]

(* for value in values: sk, sv = value; set_[f'{key}.{sk}'] = sv *)
RECURSIVE set_pairs(_, _, _)
set_pairs(m, key, values) ==
    IF values = <<>> THEN m
    ELSE set_pairs(Put(m, dot_join(key, Head(values)[1].val), Head(values)[2]),
                   key, Tail(values))

(* for target, old_val in values: unset_[target] = '' *)
RECURSIVE unset_targets(_, _)
unset_targets(m, values) ==
    IF values = <<>> THEN m
    ELSE unset_targets(Put(m, <<Head(values)[1].val>>, S("")), Tail(values))

(* The body of the loop for an ADD or CHANGE edit (lines 400-416) *)
add_or_change(acc, verb, key, changed_index, values, pointed_val, order) ==
    IF isinstance_list(pointed_val) THEN
        IF verb = "change" /\ changed_index # None
        THEN \* Changed in list: the whole updated list is kept for a single $set
             LET cur == IF key \in DOMAIN acc.list_change
                        THEN acc.list_change[key] ELSE pointed_val
                 idx == changed_index.val
             IN IF idx >= Len(cur.val) THEN Raise(acc, "IndexError")
                ELSE [acc EXCEPT !.list_change =
                        Put(acc.list_change, key,
                            L([cur.val EXCEPT ![idx + 1] = values[2]]))]
        ELSE IF verb = "add"
        THEN \* Append in list
             [acc EXCEPT !.push = Put(acc.push, key, pair_values(values))]
        ELSE \* a CHANGE of a non-list into a list: v[1] on the old value
             \* (an int or None is not subscriptable, a dict has no key 1)
             IF values[1].kind = "dict" THEN Raise(acc, "KeyError")
             ELSE Raise(acc, "TypeError")
    ELSE IF isinstance_dict(pointed_val) THEN
        IF verb = "add"
        THEN \* Add in dict
             [acc EXCEPT !.set = set_pairs(acc.set, key, values)]
        ELSE \* a CHANGE of a non-dict into a dict: sk, sv = old value
             LET old == values[1]
                 new == values[2]
                 nk == SelectKeys(order, DOMAIN new.val)
             IN IF ~isinstance_list(old) THEN Raise(acc, "TypeError")
                ELSE IF Len(old.val) # 2 THEN Raise(acc, "ValueError")
                ELSE IF Len(nk) # 2 THEN Raise(acc, "ValueError")
                ELSE [acc EXCEPT !.set =
                        Put(Put(acc.set, dot_join(key, ToString(old.val[1].val)),
                                old.val[2]),
                            dot_join(key, nk[1]), S(nk[2]))]
    ELSE \* Value just changed: old_val, new_val = values
        IF Len(values) # 2 THEN Raise(acc, "ValueError")
        ELSE IF verb = "change"
        THEN [acc EXCEPT !.set = Put(acc.set, key, values[2])]
        \* an ADD whose pointed value is not found: new_val is the second
        \* (key, value) tuple
        ELSE [acc EXCEPT !.set =
                Put(acc.set, key, L(<<S(values[2][1].val), values[2][2]>>))]

(* The body of the loop for a REMOVE edit (lines 418-432) *)
remove(acc, key, values, pointed_val) ==
    IF key = <<>> THEN \* Element has disappeared
        [acc EXCEPT !.unset = unset_targets(acc.unset, values)]
    ELSE IF isinstance_list(pointed_val) THEN \* Pop from list
        IF key \notin DOMAIN acc.list_change
        THEN [acc EXCEPT !.pull = Put(acc.pull, key, pair_values(values))]
        ELSE acc
    ELSE IF isinstance_dict(pointed_val) THEN \* Clear from dict
        [acc EXCEPT !.unset = set_pairs(acc.unset, key, values)]
    ELSE acc \* print('What to do with ...')

(* One iteration of the loop over diff(original, new_one) (lines 391-432) *)
apply_edit(acc, e, doc, order) ==
    LET as_list == ~is_dotted(e.node)      \* isinstance(key, list)
        n == Len(e.node)
        front == IF as_list THEN SubSeq(e.node, 1, n - 1) ELSE e.node
        changed_index == IF as_list THEN e.node[n] ELSE None
        key == segment_names(front)
        pointed_val == sub_key(doc, key)
    IN IF as_list /\ ~is_dotted(front)
       THEN Raise(acc, "TypeError")        \* '.'.join over a list holding an int
       ELSE IF e.verb \in {"add", "change"}
            THEN add_or_change(acc, e.verb, key, changed_index, e.values, pointed_val,
                               order)
            ELSE remove(acc, key, e.values, pointed_val)

RECURSIVE edit_loop(_, _, _, _)
edit_loop(acc, edits, doc, order) ==
    IF edits = <<>> \/ acc.raised # "none" THEN acc
    ELSE edit_loop(apply_edit(acc, Head(edits), doc, order), Tail(edits), doc, order)

(* Update list as a single operation (lines 434-436) *)
merge_list_change(set, list_change) ==
    [p \in (DOMAIN set) \cup (DOMAIN list_change) |->
        IF p \in DOMAIN list_change THEN list_change[p] ELSE set[p]]

(* result = {} and its four operators (lines 438-447) *)
build_result(acc) ==
    [raised |-> acc.raised,
     pull |-> acc.pull,
     push |-> acc.push,
     set |-> merge_list_change(acc.set, acc.list_change),
     unset |-> acc.unset]

(* generate_update_query over documents whose mappings hold their keys in  *)
(* the given order                                                         *)
generate_update_query_in_order(orig, new, order) ==
    build_result(edit_loop(EmptyAcc, diff_in_order(orig, new, order), new, order))

generate_update_query(orig, new) ==
    build_result(edit_loop(EmptyAcc, diff(orig, new), new, KeyOrder))

---------------------------------------------------------------------------
(* The collection's update_one(filter, update): what the server does with  *)
(* the $set / $unset / $push / $pull document the gateway sends.           *)
(* WriteError is the value of a document the server refuses to produce.    *)
WriteError == [kind |-> "error", val |-> 0]
Missing == [kind |-> "missing", val |-> 0]

RECURSIVE nested(_, _)
nested(path, v) ==
    IF path = <<>> THEN v ELSE D(Put(EmptyFn, Head(path), nested(Tail(path), v)))

RECURSIVE mongo_get(_, _)
mongo_get(doc, path) ==
    IF path = <<>> THEN doc
    ELSE LET k == Head(path) IN
         IF isinstance_dict(doc)
         THEN IF k \in DOMAIN doc.val THEN mongo_get(doc.val[k], Tail(path))
              ELSE Missing
         ELSE IF isinstance_list(doc) /\ isdigit(k) /\ DigitVal[k] < Len(doc.val)
         THEN mongo_get(doc.val[DigitVal[k] + 1], Tail(path))
         ELSE Missing

RECURSIVE mongo_set(_, _, _)
mongo_set(doc, path, v) ==
    IF path = <<>> THEN v
    ELSE LET k == Head(path) IN
         IF isinstance_dict(doc) THEN
            IF k \in DOMAIN doc.val
            THEN LET sub == mongo_set(doc.val[k], Tail(path), v)
                 IN IF sub = WriteError THEN WriteError
                    ELSE D(Put(doc.val, k, sub))
            ELSE D(Put(doc.val, k, nested(Tail(path), v)))
         ELSE IF isinstance_list(doc) /\ isdigit(k) THEN
            LET i == DigitVal[k]
                n == Len(doc.val)
                padded == [j \in 1..(IF i < n THEN n ELSE i + 1) |->
                             IF j <= n THEN doc.val[j] ELSE None]
                sub == IF i < n THEN mongo_set(doc.val[i + 1], Tail(path), v)
                       ELSE nested(Tail(path), v)
            IN IF sub = WriteError THEN WriteError
               ELSE L([padded EXCEPT ![i + 1] = sub])
         ELSE WriteError    \* cannot create a field in a scalar or a list

RECURSIVE mongo_unset(_, _)
mongo_unset(doc, path) ==
    LET k == Head(path) IN
    IF isinstance_dict(doc) /\ k \in DOMAIN doc.val THEN
        IF Len(path) = 1
        THEN D([j \in (DOMAIN doc.val) \ {k} |-> doc.val[j]])
        ELSE D(Put(doc.val, k, mongo_unset(doc.val[k], Tail(path))))
    ELSE IF isinstance_list(doc) /\ isdigit(k) /\ DigitVal[k] < Len(doc.val) THEN
        IF Len(path) = 1
        THEN L([doc.val EXCEPT ![DigitVal[k] + 1] = None])
        ELSE L([doc.val EXCEPT ![DigitVal[k] + 1] =
                  mongo_unset(doc.val[DigitVal[k] + 1], Tail(path))])
    ELSE doc

RECURSIVE without_values(_, _)
without_values(s, vals) ==
    IF s = <<>> THEN <<>>
    ELSE IF \E i \in 1..Len(vals) : vals[i] = Head(s)
         THEN without_values(Tail(s), vals)
         ELSE <<Head(s)>> \o without_values(Tail(s), vals)

mongo_push(doc, path, vals) ==
    LET cur == mongo_get(doc, path) IN
    IF cur = Missing THEN mongo_set(doc, path, L(vals))
    ELSE IF isinstance_list(cur) THEN mongo_set(doc, path, L(cur.val \o vals))
    ELSE WriteError

mongo_pull(doc, path, vals) ==
    LET cur == mongo_get(doc, path) IN
    IF cur = Missing THEN doc
    ELSE IF isinstance_list(cur) THEN mongo_set(doc, path, L(without_values(cur.val, vals)))
    ELSE WriteError

apply_one(doc, op, path, arg) ==
    IF doc = WriteError THEN WriteError
    ELSE CASE op = "set" -> mongo_set(doc, path, arg)
           [] op = "unset" -> mongo_unset(doc, path)
           [] op = "push" -> mongo_push(doc, path, arg)
           [] op = "pull" -> mongo_pull(doc, path, arg)

RECURSIVE apply_map(_, _, _)
apply_map(doc, op, m) ==
    IF DOMAIN m = {} THEN doc
    ELSE LET p == CHOOSE q \in DOMAIN m : TRUE
         IN apply_map(apply_one(doc, op, p, m[p]), op,
                      [q \in (DOMAIN m) \ {p} |-> m[q]])

is_prefix(p, q) == Len(p) <= Len(q) /\ SubSeq(q, 1, Len(p)) = p

(* The server refuses an update with an empty field name, with two        *)
(* operators on the same or on nested paths, or that changes _id.         *)
update_paths(q) ==
    UNION {{<<o, p>> : p \in DOMAIN q[o]} : o \in {"pull", "push", "set", "unset"}}

update_refused(q) ==
    LET ps == update_paths(q) IN
    \/ \E e \in ps : e[2] = <<>> \/ \E i \in 1..Len(e[2]) : e[2][i] = ""
    \/ \E e, f \in ps : e # f /\ is_prefix(e[2], f[2])

keep_id(doc, r) ==
    IF r = WriteError THEN WriteError
    ELSE IF mongo_get(r, <<"_id">>) # mongo_get(doc, <<"_id">>) THEN WriteError
    ELSE r

mongo_update(doc, q) ==
    IF update_refused(q) THEN WriteError
    ELSE keep_id(doc, apply_map(apply_map(apply_map(apply_map(doc,
                        "set", q.set), "unset", q.unset), "push", q.push), "pull", q.pull))

---------------------------------------------------------------------------
(* The documents explored *)
Scalars == {I(n) : n \in 1..MaxInt}
SeqsUpTo(T, n) == UNION {[1..k -> T] : k \in 0..n}
DictsOver(keys, T) == {D(f) : f \in UNION {[ks -> T] : ks \in SUBSET keys}}
ScalarLists == {L(s) : s \in SeqsUpTo(Scalars, MaxLen)}
ScalarDicts == DictsOver({"x", "y"}, Scalars)
(* what a list of mappings, a list of lists or a mapping of lists holds *)
Inner == DictsOver({"x"}, Scalars) \cup {L(s) : s \in SeqsUpTo(Scalars, 1)}
NestedLists == {L(<<c>>) : c \in Inner}
NestedDicts == {D(Put(EmptyFn, "x", c)) : c \in Inner}
Values == Scalars \cup ScalarLists \cup ScalarDicts \cup NestedLists \cup NestedDicts

(* a document: key "a" holds any value, key "b" a scalar; either may be absent *)
DocsOver(avals, bvals) ==
    {D(f) : f \in UNION {
        {Put(EmptyFn, "a", v) : v \in avals},
        {Put(EmptyFn, "b", w) : w \in bvals},
        {Put(Put(EmptyFn, "a", v), "b", w) : v \in avals, w \in bvals},
        {EmptyFn} }}
Docs == DocsOver(Values, Scalars)

(* the attributes a model instance is given in memory: "a" is absent, a  *)
(* scalar or a short list, "b" is absent or a scalar                       *)
ModelLists == {L([i \in 1..k |-> I(1)]) : k \in 0..MaxLen} \cup {L(<<I(2)>>)}
ModelAttrs == {d.val : d \in DocsOver(ModelLists \cup {I(1)}, {I(1), I(2)})}

---------------------------------------------------------------------------
(* AbstractModel *)

(* identities: gen_id() gives the first one to the new object, the         *)
(* collection generates the later ones for documents sent without _id      *)
MaxIds == 2
NewId(n) == S("id" \o ToString(n))

(* to_dict() is left to the concrete models. Here it is the instance's     *)
(* attributes and its _id; an instance whose _id is None serialises no     *)
(* _id, which is what lets insert() receive a db id for it (insert,        *)
(* lines 262-263, and to_json, which strips '_id' from to_dict()).         *)
to_dict(id, at) == IF id = None THEN D(at) ELSE D(Put(at, "_id", id))

(* self._saved = self.to_json(): the identity is stripped *)
update_saved_to_json(id, at) == D(at)

(* update_saved(): self._saved = self.to_dict() *)
update_saved(id, at) == to_dict(id, at)

---------------------------------------------------------------------------
(* MongoCollection: each gateway call is computed from the instance        *)
(* (id, at, sv), the collection st and the collection's answer resp:       *)
(*   "ok"     the request is served and acknowledged                       *)
(*   "unack"  the request is served, the result is not acknowledged        *)
(*   "raise"  the driver raises (connection loss, server-side rejection)   *)
(* and yields the instance and the collection after it, the requests sent, *)
(* how it ended (outcome), what it returned (ret), whether a write request *)
(* was sent, whether update_saved() ran and which of insert / update /     *)
(* delete ran (path).  fresh is the _id the collection would generate.     *)

Request(op, filter, arg) == [op |-> op, filter |-> filter, arg |-> arg]

Ended(id, sv, st, cs, outcome, ret, sent, refreshed, path) ==
    [m_id |-> id, saved |-> sv, store |-> st, calls |-> cs, outcome |-> outcome,
     ret |-> ret, sent |-> sent, refreshed |-> refreshed, path |-> path]

(* has_succeed(response) is defined by the class and called by none of its *)
(* methods: no result is inspected before update_saved()                   *)

(* insert(model) without its model.update_saved() *)
insert_keeps_saved(id, at, sv, st, resp, fresh) ==
    LET document == to_dict(id, at)
        cs == <<Request("insert_one", None, document)>>
        inserted_id == IF "_id" \in DOMAIN document.val THEN document.val["_id"]
                       ELSE fresh
    IN IF resp = "raise" \/ inserted_id \in DOMAIN st
       THEN Ended(id, sv, st, cs, "CollectionError", None, TRUE, FALSE, "insert")
       ELSE LET new_id == IF id = None THEN inserted_id ELSE id
            IN Ended(new_id, sv,
                     Put(st, inserted_id, D(Put(document.val, "_id", inserted_id))),
                     cs, "ok", inserted_id, TRUE, FALSE, "insert")

(* insert(model) that runs update_saved() before insert_document returns *)
insert_refreshes_first(id, at, sv, st, resp, fresh) ==
    LET document == to_dict(id, at)
        cs == <<Request("insert_one", None, document)>>
        inserted_id == IF "_id" \in DOMAIN document.val THEN document.val["_id"]
                       ELSE fresh
    IN IF resp = "raise" \/ inserted_id \in DOMAIN st
       THEN Ended(id, update_saved(id, at), st, cs, "CollectionError", None,
                  TRUE, TRUE, "insert")
       ELSE LET new_id == IF id = None THEN inserted_id ELSE id
            IN Ended(new_id, update_saved(new_id, at),
                     Put(st, inserted_id, D(Put(document.val, "_id", inserted_id))),
                     cs, "ok", inserted_id, TRUE, TRUE, "insert")

(* insert(model) with insert_document(document) *)
insert(id, at, sv, st, resp, fresh) ==
    LET document == to_dict(id, at)
        cs == <<Request("insert_one", None, document)>>
        inserted_id == IF "_id" \in DOMAIN document.val THEN document.val["_id"]
                       ELSE fresh
    IN IF resp = "raise" \/ inserted_id \in DOMAIN st   \* DuplicateKeyError
       THEN Ended(id, sv, st, cs, "CollectionError", None, TRUE, FALSE, "insert")
       ELSE LET new_id == IF id = None THEN inserted_id ELSE id
            IN Ended(new_id, update_saved(new_id, at),
                     Put(st, inserted_id, D(Put(document.val, "_id", inserted_id))),
                     cs, "ok", inserted_id, TRUE, TRUE, "insert")

(* len(update_dict) when the returned dict always carries its four operators *)
update_len_all(q) == 4

(* len(update_dict): the operators present in the returned dict *)
update_len(q) ==
    Cardinality({o \in {"pull", "push", "set", "unset"} : DOMAIN q[o] # {}})

(* a default result that carries no id *)
default_update_result_empty(id) == [acknowledged |-> TRUE, upserted_id |-> None]

(* __default_update_result(_id): UpdateResult({'upserted': _id},           *)
(* acknowledged=True), whose upserted_id is _id                            *)
default_update_result(id) == [acknowledged |-> TRUE, upserted_id |-> id]

(* update_document(query, update): the request, and update(model) after it *)
update_document(id, at, sv, st, resp, update_dict, served) ==
    LET cs == <<Request("update_one", id, update_dict)>>
        matched == id \in DOMAIN st
        refused == update_refused(update_dict) \/ served = WriteError
    IN IF update_dict.raised # "none"
       THEN Ended(id, sv, st, <<>>, update_dict.raised, None, FALSE, FALSE, "update")
       ELSE IF update_len(update_dict) > 0
       THEN IF resp = "raise" \/ (resp = "ok" /\ refused)
            THEN Ended(id, sv, st, cs, "CollectionError", None, TRUE, FALSE, "update")
            ELSE Ended(id, update_saved(id, at),
                       IF matched /\ ~refused THEN Put(st, id, served) ELSE st,
                       cs, "ok",
                       \* the UpdateResult of the collection: nothing was upserted
                       [acknowledged |-> resp = "ok", upserted_id |-> None],
                       TRUE, TRUE, "update")
       ELSE Ended(id, sv, st, <<>>, "ok", default_update_result(id),
                  FALSE, FALSE, "update")

served_by(st, id, update_dict) ==
    IF id \in DOMAIN st /\ update_dict.raised = "none"
    THEN mongo_update(st[id], update_dict) ELSE None

update_with(id, at, sv, st, resp, update_dict) ==
    update_document(id, at, sv, st, resp, update_dict, served_by(st, id, update_dict))

(* update(model) *)
update(id, at, sv, st, resp) ==
    update_with(id, at, sv, st, resp, generate_update_query(sv, to_dict(id, at)))

(* delete(model) that leaves model._id as it was *)
delete_keeps_id(id, at, sv, st, resp) ==
    LET cs == <<Request("delete_one", id, None)>>
    IN IF resp = "raise"
       THEN Ended(id, sv, st, cs, "CollectionError", None, TRUE, FALSE, "delete")
       ELSE Ended(id, update_saved(id, at),
                  [j \in (DOMAIN st) \ {id} |-> st[j]], cs, "ok",
                  [acknowledged |-> resp = "ok",
                   deleted_count |-> IF id \in DOMAIN st THEN 1 ELSE 0],
                  TRUE, TRUE, "delete")

(* delete(model) with delete_document(query) *)
delete(id, at, sv, st, resp) ==
    LET cs == <<Request("delete_one", id, None)>>
    IN IF resp = "raise"
       THEN Ended(id, sv, st, cs, "CollectionError", None, TRUE, FALSE, "delete")
       ELSE Ended(None, update_saved(None, at),
                  [j \in (DOMAIN st) \ {id} |-> st[j]], cs, "ok",
                  [acknowledged |-> resp = "ok",
                   deleted_count |-> IF id \in DOMAIN st THEN 1 ELSE 0],
                  TRUE, TRUE, "delete")

(* return self.insert(model=model) *)
save_inserted(look, r) == [r EXCEPT !.calls = look \o r.calls]

(* return self.update(model=model).upserted_id *)
save_updated(look, r) ==
    IF r.outcome # "ok" THEN [r EXCEPT !.calls = look \o r.calls]
    \* .upserted_id of a result that is not acknowledged raises
    ELSE IF ~r.ret.acknowledged
    THEN [r EXCEPT !.calls = look \o r.calls,
                   !.outcome = "InvalidOperation", !.ret = None]
    ELSE [r EXCEPT !.calls = look \o r.calls, !.ret = r.ret.upserted_id]

(* save(model) with the test of find_one's answer inverted *)
save_inverted(id, at, sv, st, found, resp, fresh) ==
    LET look == <<Request("find_one", id, None)>>
        missing == id \in DOMAIN st
    IN IF found = "raise"
       THEN Ended(id, sv, st, look, "PyMongoError", None, FALSE, FALSE, "none")
       ELSE IF missing
       THEN save_inserted(look, insert(id, at, sv, st, resp, fresh))
       ELSE save_updated(look, update(id, at, sv, st, resp))

(* save(model): find_one, then insert or update; returns the id processed *)
save(id, at, sv, st, found, resp, fresh) ==
    LET look == <<Request("find_one", id, None)>>
        missing == id \notin DOMAIN st
    IN IF found = "raise"
       THEN Ended(id, sv, st, look, "PyMongoError", None, FALSE, FALSE, "none")
       ELSE IF missing
       THEN save_inserted(look, insert(id, at, sv, st, resp, fresh))
       ELSE save_updated(look, update(id, at, sv, st, resp))

(* insert, update and delete of a model that is not an instance of the     *)
(* collection's class_: the isinstance test is their first statement and   *)
(* raises CollectionError('Wrong class ...')                               *)
wrong_class(id, sv, st) ==
    Ended(id, sv, st, <<>>, "CollectionError", None, FALSE, FALSE, "isinstance")

(* save of such a model: save has no isinstance test of its own, find_one  *)
(* is sent first and the insert or update it then runs raises              *)
save_wrong_class(id, sv, st, found) ==
    LET look == <<Request("find_one", id, None)>>
    IN IF found = "raise"
       THEN Ended(id, sv, st, look, "PyMongoError", None, FALSE, FALSE, "none")
       ELSE Ended(id, sv, st, look, "CollectionError", None, FALSE, FALSE,
                  "isinstance")

---------------------------------------------------------------------------
(* The gateway as a state machine: one model instance, one collection,     *)
(* a single writer.                                                        *)
EmptyStore == [j \in {} |-> None]
NoResult == [raised |-> "none", pull |-> EmptyMap, push |-> EmptyMap,
             set |-> EmptyMap, unset |-> EmptyMap]

(* what is remembered of a gateway call: how it ended and what held when   *)
(* it was made (clean: to_dict() equalled _saved; present: a document with *)
(* the instance's _id was stored; had_id: _id was not None)                *)
Called(op, r, resp) ==
    [op |-> op, outcome |-> r.outcome, ret |-> r.ret, sent |-> r.sent,
     refreshed |-> r.refreshed, resp |-> resp, path |-> r.path,
     clean |-> (to_dict(m_id, attrs) = saved),
     present |-> (m_id \in DOMAIN store),
     had_id |-> (m_id # None)]

NoCall(op) ==
    [op |-> op, outcome |-> "ok", ret |-> None, sent |-> FALSE,
     refreshed |-> FALSE, resp |-> "ok", path |-> "none",
     clean |-> FALSE, present |-> FALSE, had_id |-> FALSE]

(* the explored runs keep the stored lists short *)
MaxStoredLen == 3
StoreBounded(st) ==
    \A j \in DOMAIN st : \A k \in DOMAIN st[j].val :
        isinstance_list(st[j].val[k]) => Len(st[j].val[k].val) <= MaxStoredLen

Finish(op, r, resp) ==
    /\ StoreBounded(r.store)
    /\ m_id' = r.m_id
    /\ saved' = r.saved
    /\ store' = r.store
    /\ calls' = r.calls
    /\ last' = Called(op, r, resp)
    \* the collection generated an _id when the instance got one it had not
    /\ n_ids' = IF m_id = None /\ r.m_id # None THEN n_ids + 1 ELSE n_ids
    /\ UNCHANGED <<attrs, cmpvars, twovars>>

(* the collection can still generate an _id for a document sent without *)
CanInsert == m_id # None \/ n_ids < MaxIds

(* construction of a new object, then post_init(): an _id is generated and *)
(* the saved state is empty                                                *)
Init ==
    /\ m_id = NewId(1)
    /\ n_ids = 1
    /\ attrs \in ModelAttrs
    /\ saved = EmptyDict
    /\ store = EmptyStore
    /\ calls = <<>>
    /\ last = NoCall("post_init")
    /\ original = EmptyDict
    /\ new_one = EmptyDict
    /\ result = NoResult
    /\ pc = "idle"
    /\ key_order = KeyOrder
    /\ instances = <<>>
    /\ class_saved = EmptyDict
    /\ actor = 0

(* the owner of the instance changes its attributes in memory *)
Mutate ==
    /\ \E at \in ModelAttrs : at # attrs /\ attrs' = at
    /\ calls' = <<>>
    /\ last' = NoCall("mutate")
    /\ UNCHANGED <<m_id, n_ids, saved, store, cmpvars, twovars>>

Insert ==
    /\ CanInsert
    /\ \E resp \in {"ok", "raise"} :
        Finish("insert", insert(m_id, attrs, saved, store, resp, NewId(n_ids + 1)), resp)

Update ==
    \E resp \in {"ok", "unack", "raise"} :
        Finish("update", update(m_id, attrs, saved, store, resp), resp)

Delete ==
    \E resp \in {"ok", "unack", "raise"} :
        Finish("delete", delete(m_id, attrs, saved, store, resp), resp)

Save ==
    /\ CanInsert
    /\ \E found \in {"ok", "raise"}, resp \in {"ok", "unack", "raise"} :
        Finish("save", save(m_id, attrs, saved, store, found, resp, NewId(n_ids + 1)),
               resp)

Next == Mutate \/ Insert \/ Update \/ Delete \/ Save

Spec == Init /\ [][Next]_vars

(* the lifecycle through save alone: mutate and save from a new object *)
NextSave == Mutate \/ Save

SpecSave == Init /\ [][NextSave]_vars

(* the instance is also handed to a collection bound to another class *)
WrongClass ==
    \E op \in {"insert", "update", "delete"} :
        Finish(op, wrong_class(m_id, saved, store), "ok")

SaveWrongClass ==
    \E found \in {"ok", "raise"} :
        Finish("save", save_wrong_class(m_id, saved, store, found), "ok")

NextKind == Next \/ WrongClass \/ SaveWrongClass

SpecKind == Init /\ [][NextKind]_vars

---------------------------------------------------------------------------
(* Two instances of one model class on one collection.  _saved = {} is a   *)
(* class attribute: an instance reads it until an assignment to            *)
(* self._saved (post_init, update_saved) gives the instance its own.       *)

(* the attributes the two instances take *)
TwoAttrs ==
    {at \in ModelAttrs :
        /\ "b" \notin DOMAIN at
        /\ "a" \in DOMAIN at => at["a"] \in {I(1), L(<<I(1)>>)}}

(* cls(): __init__ with _id=None, post_init() not run *)
Constructed(at) == [id |-> None, attrs |-> at, own |-> FALSE, saved |-> EmptyDict]

(* model._saved as Python resolves it: the instance's own, else the class's *)
getattr_saved(inst, cls) == IF inst.own THEN inst.saved ELSE cls

(* self._saved = value done as an update in place of the dict it refers to *)
setattr_saved_in_place(inst, cls, value) ==
    IF inst.own THEN [inst |-> [inst EXCEPT !.saved = value], cls |-> cls]
    ELSE [inst |-> inst, cls |-> value]

(* self._saved = value: binds the attribute on the instance, the class     *)
(* attribute keeps the dict it had                                         *)
setattr_saved(inst, cls, value) ==
    [inst |-> [inst EXCEPT !.own = TRUE, !.saved = value], cls |-> cls]

(* the instance and the class attribute after a gateway call that ended as r *)
after_call(inst, cls, r) ==
    LET s == IF r.refreshed THEN setattr_saved(inst, cls, r.saved)
             ELSE [inst |-> inst, cls |-> cls]
    IN [s EXCEPT !.inst.id = r.m_id]

(* post_init() *)
post_init(inst, cls, fresh) ==
    IF inst.id = None
    THEN setattr_saved([inst EXCEPT !.id = fresh], cls, EmptyDict)
    ELSE setattr_saved(inst, cls, update_saved(inst.id, inst.attrs))

InitTwo ==
    /\ instances \in [1..2 -> {Constructed(at) : at \in TwoAttrs}]
    /\ class_saved = EmptyDict
    /\ actor = 0
    /\ store = EmptyStore
    /\ calls = <<>>
    /\ last = NoCall("init")
    /\ n_ids = 0
    /\ m_id = None
    /\ attrs = EmptyFn
    /\ saved = EmptyDict
    /\ original = EmptyDict
    /\ new_one = EmptyDict
    /\ result = NoResult
    /\ pc = "idle"
    /\ key_order = KeyOrder

TwoDone(i, op, s, r, took_id) ==
    /\ StoreBounded(r.store)
    /\ instances' = [instances EXCEPT ![i] = s.inst]
    /\ class_saved' = s.cls
    /\ actor' = i
    /\ store' = r.store
    /\ calls' = r.calls
    /\ last' = [NoCall(op) EXCEPT !.outcome = r.outcome, !.sent = r.sent,
                                  !.refreshed = r.refreshed, !.path = r.path]
    /\ n_ids' = IF took_id THEN n_ids + 1 ELSE n_ids
    /\ UNCHANGED <<m_id, attrs, saved, cmpvars>>

TwoCalled(i, op, r) ==
    TwoDone(i, op, after_call(instances[i], class_saved, r), r,
            instances[i].id = None /\ r.m_id # None)

TwoPostInit(i) ==
    /\ instances[i].id = None => n_ids < MaxIds
    /\ TwoDone(i, "post_init",
               post_init(instances[i], class_saved, NewId(n_ids + 1)),
               Ended(None, EmptyDict, store, <<>>, "ok", None, FALSE, FALSE, "none"),
               instances[i].id = None)

TwoMutate(i) ==
    /\ \E at \in TwoAttrs :
        /\ at # instances[i].attrs
        /\ instances' = [instances EXCEPT ![i].attrs = at]
    /\ actor' = i
    /\ calls' = <<>>
    /\ last' = NoCall("mutate")
    /\ UNCHANGED <<class_saved, store, n_ids, m_id, attrs, saved, cmpvars>>

TwoInsert(i) ==
    /\ instances[i].id # None \/ n_ids < MaxIds
    /\ \E resp \in {"ok", "raise"} :
        TwoCalled(i, "insert",
                  insert(instances[i].id, instances[i].attrs,
                         getattr_saved(instances[i], class_saved), store, resp,
                         NewId(n_ids + 1)))

TwoUpdate(i) ==
    \E resp \in {"ok", "raise"} :
        TwoCalled(i, "update",
                  update(instances[i].id, instances[i].attrs,
                         getattr_saved(instances[i], class_saved), store, resp))

TwoDelete(i) ==
    \E resp \in {"ok", "raise"} :
        TwoCalled(i, "delete",
                  delete(instances[i].id, instances[i].attrs,
                         getattr_saved(instances[i], class_saved), store, resp))

TwoSave(i) ==
    /\ instances[i].id # None \/ n_ids < MaxIds
    /\ \E resp \in {"ok", "raise"} :
        TwoCalled(i, "save",
                  save(instances[i].id, instances[i].attrs,
                       getattr_saved(instances[i], class_saved), store, "ok", resp,
                       NewId(n_ids + 1)))

NextTwo ==
    \E i \in 1..2 :
        \/ TwoPostInit(i)
        \/ TwoMutate(i)
        \/ TwoInsert(i)
        \/ TwoUpdate(i)
        \/ TwoDelete(i)
        \/ TwoSave(i)

SpecTwo == InitTwo /\ [][NextTwo]_vars

---------------------------------------------------------------------------
(* The compiler alone: generate_update_query applied to a pair of documents *)
InitCompile ==
    /\ original \in Docs
    /\ new_one \in Docs
    /\ result = NoResult
    /\ pc = "input"
    /\ key_order = KeyOrder
    /\ m_id = None
    /\ attrs = EmptyFn
    /\ saved = EmptyDict
    /\ store = EmptyStore
    /\ calls = <<>>
    /\ last = NoCall("none")
    /\ n_ids = 0
    /\ instances = <<>>
    /\ class_saved = EmptyDict
    /\ actor = 0

Compile ==
    /\ pc = "input"
    /\ result' = generate_update_query(original, new_one)
    /\ pc' = "done"
    /\ UNCHANGED <<original, new_one, key_order, gwvars, twovars>>

NextCompile == Compile

SpecCompile == InitCompile /\ [][NextCompile]_vars

(* The compiler on documents whose mappings hold their keys in one of      *)
(* several orders: "a" before or after "b", "x" before or after "y".       *)
KeyOrders ==
    {<<"_id", "a", "b", "x", "y">>, <<"_id", "b", "a", "x", "y">>,
     <<"_id", "a", "b", "y", "x">>, <<"_id", "b", "a", "y", "x">>}

InitOrder ==
    /\ original \in Docs
    /\ new_one \in Docs
    /\ key_order \in KeyOrders
    /\ result = NoResult
    /\ pc = "input"
    /\ m_id = None
    /\ attrs = EmptyFn
    /\ saved = EmptyDict
    /\ store = EmptyStore
    /\ calls = <<>>
    /\ last = NoCall("none")
    /\ n_ids = 0
    /\ instances = <<>>
    /\ class_saved = EmptyDict
    /\ actor = 0

CompileInOrder ==
    /\ pc = "input"
    /\ result' = generate_update_query_in_order(original, new_one, key_order)
    /\ pc' = "done"
    /\ UNCHANGED <<original, new_one, key_order, gwvars, twovars>>

NextOrder == CompileInOrder

SpecOrder == InitOrder /\ [][NextOrder]_vars

---------------------------------------------------------------------------
(* Properties *)

CountOp(cs, op) == Cardinality({i \in 1..Len(cs) : cs[i].op = op})
Edits == diff(original, new_one)

(* C1: right after an insert that succeeds, or an update that sends a      *)
(* non-empty instruction and succeeds (called directly or through save),   *)
(* the saved state equals the whole of to_dict(), not only the fields the  *)
(* instruction names.                                                      *)
C1_SnapshotIsFullState ==
    (last.op \in {"insert", "update", "save"} /\ last.outcome = "ok" /\ last.sent)
        => saved = to_dict(m_id, attrs)

(* C1 witness: an update that named only "b" succeeded on an instance that *)
(* also holds "a", and the saved state holds both.                         *)
C1_Witness ==
    /\ last.op = "update" /\ last.outcome = "ok" /\ last.sent
    /\ Len(calls) = 1
    /\ DOMAIN calls[1].arg.set = {<<"b">>}
    /\ DOMAIN calls[1].arg.push = {} /\ DOMAIN calls[1].arg.pull = {}
    /\ DOMAIN calls[1].arg.unset = {}
    /\ "a" \in DOMAIN attrs
    /\ "a" \in DOMAIN saved.val /\ saved.val["a"] = attrs["a"]

(* C2: whenever a save returns successfully, the document stored under the *)
(* instance's _id equals the saved state.                                  *)
C2_StoredEqualsSnapshot ==
    (last.op = "save" /\ last.outcome = "ok")
        => (m_id \in DOMAIN store /\ store[m_id] = saved)

(* the pair differs by the representative shapes only: keys added or       *)
(* removed, list items appended, removed or replaced, scalar leaves        *)
(* changed; no value changes its kind                                      *)
ScalarChangesOnly ==
    \A i \in 1..Len(Edits) :
        Edits[i].verb = "change" =>
            (Edits[i].values[1].kind = "int" /\ Edits[i].values[2].kind = "int")

(* C3: round trip: the instruction compiled for (original, updated),       *)
(* applied to original with the collection's $set/$unset/$push/$pull,      *)
(* yields exactly updated.                                                 *)
C3_RoundTrip ==
    (pc = "done" /\ ScalarChangesOnly)
        => (result.raised = "none" /\ mongo_update(original, result) = new_one)

(* C4: in every instruction returned, a path appears in at most one of     *)
(* $set, $push and $pull.                                                  *)
C4_OneOperatorPerPath ==
    (pc = "done" /\ result.raised = "none")
        => /\ (DOMAIN result.set) \cap (DOMAIN result.push) = {}
           /\ (DOMAIN result.set) \cap (DOMAIN result.pull) = {}
           /\ (DOMAIN result.push) \cap (DOMAIN result.pull) = {}

(* C5: generate_update_query returns an instruction for every pair of      *)
(* well-formed documents and never raises.                                 *)
C5_NeverRaises == pc = "done" => result.raised = "none"

(* C6 as claimed: a save of an instance whose to_dict() equals its saved   *)
(* state sends no request at all to the collection.                        *)
C6_NoRequestAtAll == (last.op = "save" /\ last.clean) => calls = <<>>

(* C6: a save of an instance whose to_dict() equals its saved state sends  *)
(* one find_one and no update_one or delete_one; it sends an insert_one    *)
(* only when no document with the instance's _id is stored.                *)
C6_CleanSaveOnlyLooksUp ==
    (last.op = "save" /\ last.clean)
        => /\ Len(calls) >= 1 /\ calls[1].op = "find_one"
           /\ CountOp(calls, "find_one") = 1
           /\ CountOp(calls, "update_one") = 0
           /\ CountOp(calls, "delete_one") = 0
           /\ CountOp(calls, "insert_one") <= 1
           /\ (CountOp(calls, "insert_one") = 1 => ~last.present)

(* C6 witness: a save of a clean instance whose document is stored ended   *)
(* well having sent its find_one alone.                                    *)
C6_Witness ==
    /\ last.op = "save" /\ last.clean /\ last.present /\ last.outcome = "ok"
    /\ Len(calls) = 1 /\ calls[1].op = "find_one"
    /\ "a" \in DOMAIN attrs

C8_UnacknowledgedUpdateFails ==
    (last.op = "update" /\ last.sent /\ last.present /\ last.resp = "unack")
        => (last.outcome = "CollectionError" /\ ~last.refreshed)

(* C9: for every key removed from a mapping, at top level or nested under  *)
(* mapping keys, $unset maps the key's dotted path to the marker "".       *)
C9_UnsetMarker ==
    (pc = "done" /\ result.raised = "none")
        => \A i \in 1..Len(Edits) :
             (Edits[i].verb = "remove" /\ is_dotted(Edits[i].node)) =>
                \A j \in 1..Len(Edits[i].values) :
                    Edits[i].values[j][1].kind = "key" =>
                        LET path == Append(segment_names(Edits[i].node),
                                           Edits[i].values[j][1].val)
                        IN /\ path \in DOMAIN result.unset
                           /\ result.unset[path] = S("")

(* C10: save of an instance without _id runs insert; save of an instance   *)
(* with an _id asks the collection for it and runs insert when no such     *)
(* document is stored and update when one is; a save sends at most one of  *)
(* insert_one and update_one.                                              *)
C10_SaveDispatch ==
    last.op = "save" =>
        /\ CountOp(calls, "insert_one") + CountOp(calls, "update_one") <= 1
        /\ (last.had_id => (calls # <<>> /\ calls[1].op = "find_one"))
        /\ last.path # "none" =>
            /\ ~last.had_id => last.path = "insert"
            /\ (last.had_id /\ ~last.present) => last.path = "insert"
            /\ (last.had_id /\ last.present) => last.path = "update"
            /\ last.path = "insert" =>
                 (CountOp(calls, "insert_one") = 1 /\ CountOp(calls, "update_one") = 0)
            /\ last.path = "update" => CountOp(calls, "insert_one") = 0

(* C10 witness: an instance whose _id had been cleared was saved through   *)
(* insert and received an _id from the collection.                         *)
C10_Witness ==
    /\ last.op = "save" /\ ~last.had_id /\ last.path = "insert"
    /\ last.outcome = "ok" /\ m_id # None
    /\ CountOp(calls, "insert_one") = 1

(* C11: insert, update, delete and save of a model that is not of the      *)
(* collection's class end with the type-mismatch error before any request  *)
(* is sent to the collection.                                              *)
C11_MismatchBeforeAnyRequest ==
    last.path = "isinstance"
        => (last.outcome = "CollectionError" /\ calls = <<>>)

(* C12: when the collection's call raises during insert, update or delete, *)
(* the call ends with CollectionError after that single request, and the   *)
(* instance's _id, attributes and saved state are what they were before.   *)
C12_RaiseSurfacesOnce ==
    [][(last'.op \in {"insert", "update", "delete"} /\ last'.sent
            /\ last'.resp = "raise")
        => /\ last'.outcome = "CollectionError"
           /\ Len(calls') = 1
           /\ m_id' = m_id /\ saved' = saved /\ attrs' = attrs]_vars

(* C12 witness: an update of a stored, changed instance was sent, the      *)
(* collection raised, and the instance still differs from its saved state. *)
C12_Witness ==
    /\ last.op = "update" /\ last.sent /\ last.resp = "raise"
    /\ last.outcome = "CollectionError" /\ last.present
    /\ Len(calls) = 1 /\ calls[1].op = "update_one"
    /\ saved # to_dict(m_id, attrs)

(* C13: whatever is done to one of two instances (construction aside:      *)
(* post_init, mutation, insert, update, save, delete), the saved state the *)
(* other instance reads stays what it was, also while that other instance  *)
(* still reads the class attribute.                                        *)
C13_OtherSnapshotUntouched ==
    [][\A i \in 1..2 :
        actor' = i =>
            getattr_saved(instances'[3 - i], class_saved')
                = getattr_saved(instances[3 - i], class_saved)]_vars

(* C13 witness: the second instance has been inserted and has a saved      *)
(* state of its own with attributes in it, while the first still reads the *)
(* class attribute.                                                        *)
C13_Witness ==
    /\ instances # <<>>
    /\ actor = 2 /\ last.op = "insert" /\ last.outcome = "ok"
    /\ instances[2].own /\ "a" \in DOMAIN instances[2].saved.val
    /\ ~instances[1].own
    /\ getattr_saved(instances[1], class_saved) = EmptyDict

(* C14: idempotence: generate_update_query(A, A) is the empty instruction  *)
(* for every document A: it returns and none of $pull, $push, $set and     *)
(* $unset has an entry.                                                    *)
C14_Idempotence ==
    (pc = "done" /\ original = new_one)
        => /\ result.raised = "none"
           /\ DOMAIN result.pull = {} /\ DOMAIN result.push = {}
           /\ DOMAIN result.set = {} /\ DOMAIN result.unset = {}

(* C14 witness: a document with a list nested in a mapping under "a" and a *)
(* scalar under "b" was compiled against itself.                           *)
C14_Witness ==
    /\ pc = "done" /\ original = new_one
    /\ DOMAIN original.val = {"a", "b"}
    /\ isinstance_dict(original.val["a"])
    /\ "x" \in DOMAIN original.val["a"].val
    /\ isinstance_list(original.val["a"].val["x"])
    /\ Len(original.val["a"].val["x"].val) = 1

(* the instance is new to the collection: no document is stored under its *)
(* _id, or it has no _id                                                   *)
NewObject == m_id \notin DOMAIN store

(* the instance was saved, is stored as saved, and since then only the     *)
(* scalar attribute k has changed                                          *)
OnlyScalarChanged(k) ==
    LET cur == to_dict(m_id, attrs)
    IN /\ m_id \in DOMAIN store /\ store[m_id] = saved
       /\ DOMAIN cur.val = DOMAIN saved.val
       /\ k \in DOMAIN cur.val
       /\ cur.val[k].kind = "int" /\ saved.val[k].kind = "int"
       /\ cur.val[k] # saved.val[k]
       /\ \A j \in DOMAIN cur.val \ {k} : cur.val[j] = saved.val[j]

(* C15: lifecycle: a save of a new instance that succeeds sends exactly    *)
(* one insert_one and leaves the saved state equal to the whole inserted   *)
(* document; a later save after a change of one scalar attribute alone     *)
(* sends exactly one update_one, filtered by the _id, whose update holds   *)
(* only a $set of that attribute.                                          *)
C15_Lifecycle ==
    [][(last'.op = "save" /\ last'.outcome = "ok")
        => /\ NewObject =>
                /\ CountOp(calls', "insert_one") = 1
                /\ CountOp(calls', "update_one") = 0
                /\ saved' = to_dict(m_id', attrs')
                /\ m_id' \in DOMAIN store' /\ store'[m_id'] = saved'
           /\ \A k \in {"a", "b"} : OnlyScalarChanged(k) =>
                /\ CountOp(calls', "update_one") = 1
                /\ CountOp(calls', "insert_one") = 0
                /\ LET u == calls'[2]
                   IN /\ u.op = "update_one" /\ u.filter = m_id
                      /\ u.arg.set = (<<k>> :> attrs[k])
                      /\ DOMAIN u.arg.push = {} /\ DOMAIN u.arg.pull = {}
                      /\ DOMAIN u.arg.unset = {}]_vars

(* C15 witness: the second save of the lifecycle: an instance holding a    *)
(* list under "a" had "b" set to 2 and its save sent one update_one with   *)
(* $set b alone.                                                           *)
C15_Witness ==
    /\ last.op = "save" /\ last.path = "update" /\ last.outcome = "ok"
    /\ Len(calls) = 2 /\ calls[2].op = "update_one" /\ calls[2].filter = m_id
    /\ calls[2].arg.set = (<<"b">> :> I(2))
    /\ DOMAIN calls[2].arg.push = {} /\ DOMAIN calls[2].arg.pull = {}
    /\ DOMAIN calls[2].arg.unset = {}
    /\ "a" \in DOMAIN attrs /\ isinstance_list(attrs["a"])
    /\ store[m_id] = saved /\ saved = to_dict(m_id, attrs)

(* the instruction update would compile for the instance is empty *)
EmptyInstruction ==
    LET q == generate_update_query(saved, to_dict(m_id, attrs))
    IN /\ q.raised = "none"
       /\ DOMAIN q.pull = {} /\ DOMAIN q.push = {}
       /\ DOMAIN q.set = {} /\ DOMAIN q.unset = {}

(* C16: an update whose compiled instruction is empty sends no update_one  *)
(* (no request at all), leaves the saved state as it was and returns an    *)
(* acknowledged result that carries the instance's _id.                    *)
C16_EmptyUpdateIsNoOp ==
    [][(last'.op = "update" /\ EmptyInstruction)
        => /\ calls' = <<>>
           /\ saved' = saved /\ m_id' = m_id /\ store' = store
           /\ last'.outcome = "ok"
           /\ last'.ret = [acknowledged |-> TRUE, upserted_id |-> m_id]]_vars

(* C16 witness: update ended so on a stored instance that has attributes   *)
(* and an _id.                                                             *)
C16_Witness ==
    /\ last.op = "update" /\ last.outcome = "ok" /\ ~last.sent /\ last.clean
    /\ last.present /\ calls = <<>>
    /\ last.ret = [acknowledged |-> TRUE, upserted_id |-> m_id]
    /\ m_id # None /\ "a" \in DOMAIN attrs

(* C17: every save that succeeds returns the _id of the instance it        *)
(* processed, whether it inserted, found nothing to update, or sent an     *)
(* update.                                                                 *)
C17_SaveReturnsIdentity ==
    (last.op = "save" /\ last.outcome = "ok")
        => (m_id # None /\ last.ret = m_id)

(* the paths through mapping keys at which the documents hold lists *)
ListPaths == {<<"a">>, <<"a", "x">>}

(* both documents hold a list at path p and the lists differ at an index   *)
(* they share                                                              *)
SharedIndexDiffers(p) ==
    LET o == sub_key(original, p)
        n == sub_key(new_one, p)
    IN /\ isinstance_list(o) /\ isinstance_list(n)
       /\ \E i \in 1..Len(o.val) : i <= Len(n.val) /\ o.val[i] # n.val[i]

(* C18: whenever the element at an index present in both versions of a    *)
(* list differs, the returned instruction's $set maps the list's path to   *)
(* the whole updated list and its $pull has no entry for that path.        *)
C18_InteriorChangeRewrites ==
    (pc = "done" /\ result.raised = "none")
        => \A p \in ListPaths :
             SharedIndexDiffers(p) =>
                /\ p \in DOMAIN result.set
                /\ result.set[p] = sub_key(new_one, p)
                /\ p \notin DOMAIN result.pull

(* the dotted path of a node, an index written as its digits *)
PathOf(node) ==
    [i \in 1..Len(node) |->
        IF node[i].kind = "idx" THEN ToString(node[i].val) ELSE node[i].val]

(* the documents differ by one edit of the given verb alone, on keys of a  *)
(* mapping ("key") or on indices of a list ("idx")                         *)
SingleEdit(verb, segment_kind) ==
    /\ Len(Edits) = 1
    /\ Edits[1].verb = verb
    /\ Edits[1].values[1][1].kind = segment_kind

(* C19: when keys are added to a mapping at path P (the top-level document *)
(* included, P empty) and nothing else differs, the returned instruction   *)
(* is a $set with, for each added (key, value), the entry P.key = value    *)
(* (key at top level), and nothing else.                                   *)
C19_KeyAddSets ==
    (pc = "done" /\ SingleEdit("add", "key"))
        => LET e == Edits[1]
               paths == {Append(PathOf(e.node), e.values[j][1].val) :
                            j \in 1..Len(e.values)}
           IN /\ result.raised = "none"
              /\ DOMAIN result.set = paths
              /\ \A j \in 1..Len(e.values) :
                    result.set[Append(PathOf(e.node), e.values[j][1].val)]
                        = e.values[j][2]
              /\ DOMAIN result.push = {} /\ DOMAIN result.pull = {}
              /\ DOMAIN result.unset = {}

(* C20: when a list at path P, at any depth, only gains trailing elements  *)
(* and nothing else differs, the returned instruction is a $push of        *)
(* exactly P to {$each: tail}, tail being the added values in order, and   *)
(* nothing else.                                                           *)
C20_AppendPushes ==
    (pc = "done" /\ SingleEdit("add", "idx"))
        => LET e == Edits[1]
           IN /\ result.raised = "none"
              /\ DOMAIN result.push = {PathOf(e.node)}
              /\ result.push[PathOf(e.node)] = pair_values(e.values)
              /\ DOMAIN result.set = {} /\ DOMAIN result.pull = {}
              /\ DOMAIN result.unset = {}

(* C21: ordering insensitivity: for every pair of documents the returned   *)
(* instruction is the same whatever order the mappings hold their keys in  *)
(* (the order in which the differ visits and reports them).                *)
C21_OrderInsensitive ==
    pc = "done" => result = generate_update_query(original, new_one)

=============================================================================
